---- MODULE Spec2Model ----
(***************************************************************************)
(* Playback controller of the PlayAxis visual, in its two variants:        *)
(*   basic    = src/src/playAxis.ts                                        *)
(*   extended = src/unnamed/part_000 (adds autoStart and loop)             *)
(* The state is the fields of class Visual; there is one action per        *)
(* handler (update, the five button clicks, a timer callback) and one for  *)
(* the passage of time.  A handler that raises a TypeError keeps the       *)
(* assignments it made before the faulting statement.                      *)
(***************************************************************************)
EXTENDS Integers, Sequences, FiniteSets, TLC

\* Bounds of the model
MaxLen == 3          \* longest category column handed to update()

Categories == {"A", "B"}
Variants == {"basic", "extended"}
\* timeInterval, in units of the smallest one
Intervals == {1, 2}

VARIABLES
    variant,         \* which of the two source files is running
    status,          \* this.status : Status
    lastSelected,    \* this.lastSelected
    viewModel,       \* this.viewModel
    visualSettings,  \* this.visualSettings
    timers,          \* this.timers, restricted to the handles still pending
    dimmed,          \* controls whose opacity attribute is "0.3"
    last,            \* history: the handler that ran last and what it did
    activated,       \* history: index of the last select since Stopped, or -1
    run              \* history: events of the timer callbacks of an undisturbed play()

vars == <<variant, status, lastSelected, viewModel, visualSettings, timers,
          dimmed, last, activated, run>>

----------------------------------------------------------------------------
\* Values

\* settings objects: "undefined" before the first assignment, "empty" for the
\* {} of emptyViewModel, "full" for the object built by visualTransform
UndefinedSettings ==
    [kind |-> "undefined", timeInterval |-> 0, show |-> FALSE,
     loop |-> FALSE, autoStart |-> FALSE]

EmptySettings ==
    [kind |-> "empty", timeInterval |-> 0, show |-> FALSE,
     loop |-> FALSE, autoStart |-> FALSE]

UndefinedViewModel ==
    [defined |-> FALSE, dataPoints |-> <<>>, settings |-> UndefinedSettings]

emptyViewModel ==
    [defined |-> TRUE, dataPoints |-> <<>>, settings |-> EmptySettings]

NoId == <<-1, "">>

SelectEv(id) == [e |-> "select", id |-> id, text |-> ""]
CaptionEv(text) == [e |-> "caption", id |-> NoId, text |-> text]
LabelEv(text) == [e |-> "label", id |-> NoId, text |-> text]
ClearEv == [e |-> "clear", id |-> NoId, text |-> ""]

\* the data views update() can receive: a category column of 0..MaxLen values
\* (columns of neighbouring lengths differ at every index), and the settings
\* of the format pane
Column(n) ==
    [i \in 1..n |-> IF (i + n) % 2 = 0 THEN "A" ELSE "B"]

Columns == {Column(n) : n \in 0..MaxLen}

ReadyOptions ==
    [ready : {TRUE}, values : Columns, timeInterval : Intervals,
     show : BOOLEAN, loop : BOOLEAN, autoStart : BOOLEAN]

NotReadyOptions ==
    [ready |-> FALSE, values |-> <<>>, timeInterval |-> 1, show |-> TRUE,
     loop |-> FALSE, autoStart |-> FALSE]

\* the basic variant has no loop and no autoStart setting
Options ==
    {o \in ReadyOptions : variant = "extended" \/ (~o.loop /\ ~o.autoStart)}
    \cup {NotReadyOptions}

\* fault injection: every data view counts as ready
isDataReadyAlways(options) == TRUE

isDataReady(options) == options.ready

\* categoryDataPoints.push({category, selectionId}) for each value
CategoryDataPoints(values) ==
    [i \in 1..Len(values) |->
        [category |-> values[i], selectionId |-> <<i - 1, values[i]>>]]

visualTransform(options) ==
    IF variant = "basic" /\ ~isDataReady(options)
    THEN emptyViewModel
    ELSE [defined |-> TRUE,
          dataPoints |-> CategoryDataPoints(options.values),
          settings |->
             [kind |-> "full",
              timeInterval |-> options.timeInterval,
              show |-> options.show,
              loop |-> IF variant = "extended" THEN options.loop ELSE FALSE,
              autoStart |-> IF variant = "extended" THEN options.autoStart
                            ELSE FALSE]]

\* dataPoints[i] with the 0-based index of the source
Item(vm, i) == vm.dataPoints[i + 1]
Length(vm) == Len(vm.dataPoints)


----------------------------------------------------------------------------
\* Handlers, as functions on the object's fields.  A handler state s also
\* carries what the handler has emitted (out), scheduled (sched) and
\* cancelled (cleared) so far and whether it has raised an error (threw).

Max(a, b) == IF a >= b THEN a ELSE b

Self ==
    [status |-> status, lastSelected |-> lastSelected, viewModel |-> viewModel,
     visualSettings |-> visualSettings, timers |-> timers, dimmed |-> dimmed,
     out |-> <<>>, sched |-> <<>>, cleared |-> <<>>, threw |-> FALSE]

Throw(s) == [s EXCEPT !.threw = TRUE]

\* setTimeout(callback, delay): a pending handle; a negative delay counts as 0
Timer(kind, i, delay) ==
    [kind |-> kind, i |-> i, delay |-> delay, left |-> Max(delay, 0)]

\* fault injection: the clearTimeout loop misses the last handle
ClearTimersButLast(s) ==
    IF s.timers = <<>> THEN s
    ELSE [s EXCEPT !.cleared = @ \o SubSeq(s.timers, 1, Len(s.timers) - 1),
                   !.timers = <<s.timers[Len(s.timers)]>>]

\* for (let i of this.timers) clearTimeout(i): no handle stays pending
ClearTimers(s) ==
    [s EXCEPT !.cleared = @ \o s.timers, !.timers = <<>>]

\* fault injection: updateCaption writes the label whatever show says
updateCaptionAlways(s, caption) ==
    IF s.visualSettings.kind # "full"
    THEN Throw(s)
    ELSE [s EXCEPT !.out = @ \o <<CaptionEv(caption), LabelEv(caption)>>]

updateCaption(s, caption) ==
    IF s.visualSettings.kind # "full"
    THEN Throw(s)      \* captionSettings of undefined
    ELSE IF s.visualSettings.show
         THEN [s EXCEPT !.out = @ \o <<CaptionEv(caption), LabelEv(caption)>>]
         ELSE [s EXCEPT !.out = Append(@, CaptionEv(caption))]

\* fault injection: playAnimation without its guard
playNeverReturns(st) == FALSE

\* if (this.status == Status.Play) return;
playReturns(st) == st = "Play"

\* if (this.status == Status.Stop) return;
stopReturns(st) == st = "Stop"

\* if (this.status == Status.Pause || this.status == Status.Stop) return;
pauseReturns(st) == st = "Pause" \/ st = "Stop"

\* if (this.status == Status.Play || this.status == Status.Stop) return;
stepReturns(st) == st = "Play" \/ st = "Stop"

\* fault injection: resuming starts at the cursor instead of after it
startingIndexAtCursor(st, ls) == IF st = "Stop" THEN 0 ELSE ls

\* fault injection: the start after the cursor also when stopped
startingIndexAfterCursor(st, ls) == ls + 1

\* fault injection: every play starts again at index 0
startingIndexFromZero(st, ls) == 0

\* this.status == Status.Stop ? 0 : this.lastSelected + 1
startingIndex(st, ls) == IF st = "Stop" THEN 0 ELSE ls + 1

\* fault injection: the delay counts down from the end instead of up from the cursor
advanceDelayCountdown(i, ls, timeInterval) == (MaxLen - i) * timeInterval

\* (i - this.lastSelected) * timeInterval
advanceDelay(i, ls, timeInterval) == (i - ls) * timeInterval

\* fault injection: the terminal timer expires with the last advance timer
terminalDelayShort(n, ls, timeInterval) == (n - 1 - ls) * timeInterval

\* (this.viewModel.dataPoints.length - this.lastSelected) * timeInterval
terminalDelay(n, ls, timeInterval) == (n - ls) * timeInterval

\* the for loop of playAnimation: one timer per index from..n-1, in push order
RECURSIVE advanceTimers(_, _, _, _)
advanceTimers(from, n, ls, timeInterval) ==
    IF from >= n THEN <<>>
    ELSE <<Timer("advance", from, advanceDelay(from, ls, timeInterval))>>
         \o advanceTimers(from + 1, n, ls, timeInterval)

\* the handles playAnimation pushes
scheduledTimers(st, ls, n, timeInterval) ==
    advanceTimers(startingIndex(st, ls), n, ls, timeInterval)
    \o (IF variant = "extended"
        THEN <<Timer("terminal", n, terminalDelay(n, ls, timeInterval))>>
        ELSE <<>>)

playAnimation(s) ==
    IF playReturns(s.status) THEN s
    ELSE LET s1 == [s EXCEPT !.dimmed = (@ \cup {"play", "next", "previous"})
                                         \ {"stop", "pause"}]
         IN  IF ~s1.viewModel.defined \/ s1.viewModel.settings.kind # "full"
             THEN Throw(s1)    \* settings / transitionSettings of undefined
             ELSE LET new == scheduledTimers(s1.status, s1.lastSelected,
                                    Length(s1.viewModel),
                                    s1.viewModel.settings.timeInterval)
                  IN  [s1 EXCEPT !.timers = @ \o new,
                                 !.sched = @ \o new,
                                 !.status = "Play"]

\* fault injection: stopAnimation without its clearTimeout loop
stopAnimationKeepsTimers(s) ==
    IF stopReturns(s.status) THEN s
    ELSE LET s1 == [s EXCEPT !.dimmed = (@ \cup {"pause", "stop", "next",
                                                  "previous"}) \ {"play"}]
             s3 == updateCaption(s1, "")
         IN  IF s3.threw THEN s3
             ELSE [s3 EXCEPT !.lastSelected = 0,
                             !.out = Append(@, ClearEv),
                             !.status = "Stop"]

\* fault injection: stopAnimation without this.lastSelected = 0
stopAnimationKeepsCursor(s) ==
    IF stopReturns(s.status) THEN s
    ELSE LET s1 == [s EXCEPT !.dimmed = (@ \cup {"pause", "stop", "next",
                                                  "previous"}) \ {"play"}]
             s2 == ClearTimers(s1)
             s3 == updateCaption(s2, "")
         IN  IF s3.threw THEN s3
             ELSE [s3 EXCEPT !.out = Append(@, ClearEv),
                             !.status = "Stop"]

stopAnimation(s) ==
    IF stopReturns(s.status) THEN s
    ELSE LET s1 == [s EXCEPT !.dimmed = (@ \cup {"pause", "stop", "next",
                                                  "previous"}) \ {"play"}]
             s2 == ClearTimers(s1)
             s3 == updateCaption(s2, "")
         IN  IF s3.threw THEN s3
             ELSE [s3 EXCEPT !.lastSelected = 0,
                             !.out = Append(@, ClearEv),
                             !.status = "Stop"]

\* fault injection: pauseAnimation without its clearTimeout loop
pauseAnimationKeepsTimers(s) ==
    IF pauseReturns(s.status) THEN s
    ELSE [s EXCEPT !.dimmed = (@ \cup {"pause"})
                                \ {"play", "stop", "next", "previous"},
                   !.status = "Pause"]

pauseAnimation(s) ==
    IF pauseReturns(s.status) THEN s
    ELSE LET s1 == [s EXCEPT !.dimmed = (@ \cup {"pause"})
                                \ {"play", "stop", "next", "previous"}]
             s2 == ClearTimers(s1)
         IN  [s2 EXCEPT !.status = "Pause"]

\* fault injection: the upper limit is the length instead of the last index
outOfLimitsLoose(ls, delta, n) == (ls + delta) < 0 \/ (ls + delta) > n

\* (lastSelected + step) < 0 || (lastSelected + step) > (length - 1)
outOfLimits(ls, delta, n) == (ls + delta) < 0 \/ (ls + delta) > (n - 1)

\* selectionManager.select(dataPoints[i].selectionId), then the statements
\* that follow it in the caller
selectItem(s, i) ==
    IF i < 0 \/ i >= Length(s.viewModel)
    THEN Throw(s)      \* selectionId of undefined
    ELSE [s EXCEPT !.out = Append(@, SelectEv(Item(s.viewModel, i).selectionId))]

\* fault injection: step selects the item before it moves the cursor
stepSelectsBeforeMove(s, delta) ==
    IF stepReturns(s.status) THEN s
    ELSE IF outOfLimits(s.lastSelected, delta, Length(s.viewModel)) THEN s
    ELSE LET s1 == selectItem(s, s.lastSelected)
             s2 == IF s1.threw THEN s1 ELSE [s1 EXCEPT !.lastSelected = @ + delta]
             s3 == IF s2.threw THEN s2
                   ELSE updateCaption(s2, Item(s2.viewModel, s2.lastSelected).category)
         IN  IF s3.threw THEN s3 ELSE [s3 EXCEPT !.status = "Pause"]

step(s, delta) ==
    IF stepReturns(s.status) THEN s
    ELSE IF outOfLimits(s.lastSelected, delta, Length(s.viewModel)) THEN s
    ELSE LET s1 == [s EXCEPT !.lastSelected = @ + delta]
             s2 == selectItem(s1, s1.lastSelected)
             s3 == IF s2.threw THEN s2
                   ELSE updateCaption(s2, Item(s2.viewModel, s2.lastSelected).category)
         IN  IF s3.threw THEN s3 ELSE [s3 EXCEPT !.status = "Pause"]

\* fault injection: the advance callback selects without moving the cursor
advanceCallbackKeepsCursor(s, i) ==
    LET s1 == selectItem(s, i)
    IN  IF s1.threw THEN s1
        ELSE updateCaption(s1, Item(s1.viewModel, i).category)

\* fault injection: the callback of the last index stops the playback
advanceCallbackStopsAtEnd(s, i) ==
    LET s1 == selectItem(s, i)
        s2 == IF s1.threw THEN s1 ELSE [s1 EXCEPT !.lastSelected = i]
        s3 == IF s2.threw THEN s2
              ELSE updateCaption(s2, Item(s2.viewModel, i).category)
    IN  IF ~s3.threw /\ i = Length(s3.viewModel) - 1
        THEN stopAnimation(s3)
        ELSE s3

\* the callback of an advance timer for index i
advanceCallback(s, i) ==
    LET s1 == selectItem(s, i)
        s2 == IF s1.threw THEN s1 ELSE [s1 EXCEPT !.lastSelected = i]
    IN  IF s2.threw THEN s2
        ELSE updateCaption(s2, Item(s2.viewModel, i).category)

\* fault injection: the terminal callback stops whatever loop says
terminalCallbackAlwaysStops(s) == stopAnimation(s)

\* fault injection: the loop branch restarts without resetting lastSelected
terminalCallbackKeepsCursor(s) ==
    IF s.visualSettings.loop
    THEN playAnimation([s EXCEPT !.status = "Stop"])
    ELSE stopAnimation(s)

\* fault injection: the terminal callback restarts whatever loop says
terminalCallbackAlwaysRestarts(s) ==
    playAnimation([s EXCEPT !.status = "Stop", !.lastSelected = 0])

\* the callback of stopAnimationTimer (extended variant)
terminalCallback(s) ==
    IF s.visualSettings.loop
    THEN playAnimation([s EXCEPT !.status = "Stop", !.lastSelected = 0])
    ELSE stopAnimation(s)

\* the title written to #label at the end of update()
changeTitle(s) ==
    IF s.visualSettings.show
    THEN [s EXCEPT !.out = Append(@, LabelEv("title"))]
    ELSE [s EXCEPT !.out = Append(@, LabelEv(""))]

install(s, options) ==
    LET vm == visualTransform(options)
    IN  [s EXCEPT !.viewModel = vm, !.visualSettings = vm.settings]

\* fault injection: the basic update cancels the pending timers
updateBasicCancelsTimers(s, options) ==
    LET s1 == install(ClearTimers(s), options)
    IN  IF s1.visualSettings.kind # "full"
        THEN Throw(s1)
        ELSE changeTitle(s1)

\* fault injection: the basic update calls stopAnimation() first
updateBasicStopsFirst(s, options) ==
    LET s0 == stopAnimation(s)
        s1 == install(IF s0.threw THEN s ELSE s0, options)
    IN  IF s1.visualSettings.kind # "full"
        THEN Throw(s1)
        ELSE changeTitle(s1)

updateBasic(s, options) ==
    LET s1 == install(s, options)
    IN  IF s1.visualSettings.kind # "full"
        THEN Throw(s1)     \* colorPicked of undefined
        ELSE changeTitle(s1)

\* fault injection: update installs the view model without stopAnimation()
updateExtendedWithoutStop(s, options) ==
    IF ~isDataReady(options) THEN s
    ELSE LET s2 == install(s, options)
             s3 == IF s2.visualSettings.autoStart THEN playAnimation(s2) ELSE s2
         IN  IF s3.threw THEN s3 ELSE changeTitle(s3)

updateExtended(s, options) ==
    IF ~isDataReady(options) THEN s
    ELSE LET s1 == stopAnimation(s)
             s2 == install(s1, options)
             s3 == IF s2.visualSettings.autoStart THEN playAnimation(s2) ELSE s2
         IN  IF s1.threw THEN s1
             ELSE IF s3.threw THEN s3
             ELSE changeTitle(s3)

update(s, options) ==
    IF variant = "basic" THEN updateBasic(s, options)
    ELSE updateExtended(s, options)

----------------------------------------------------------------------------
\* The state machine

NoRun == [st |-> "off", log |-> <<>>]

\* what the history keeps of a handler: its name and argument, the status and
\* cursor it started from, and what it emitted, scheduled and cancelled
Record(op, delta, tkind, tidx, s) ==
    [op |-> op, delta |-> delta, tkind |-> tkind, tidx |-> tidx,
     pre |-> status, cur |-> lastSelected,
     out |-> s.out, sched |-> s.sched, cleared |-> s.cleared,
     threw |-> s.threw, options |-> NotReadyOptions]

\* the index of the item selected last since the status left Stop: none (-1)
\* when the handler ends in Stop or went through it (stopAnimation ran to its
\* end, or the terminal callback reset the status), else the index of the
\* last select the handler made, else what it was
Activated(rec, s) ==
    LET selects == SelectSeq(s.out, LAMBDA x : x.e = "select")
    IN  IF s.status = "Stop" \/ rec.tkind = "terminal"
           \/ \E k \in DOMAIN s.out : s.out[k] = ClearEv
        THEN -1
        ELSE IF selects # <<>> THEN selects[Len(selects)].id[1]
        ELSE activated

\* the fields of the object after the handler, and the history of the step
CommitAs(rec, s) ==
    /\ status' = s.status
    /\ lastSelected' = s.lastSelected
    /\ viewModel' = s.viewModel
    /\ visualSettings' = s.visualSettings
    /\ timers' = s.timers
    /\ dimmed' = s.dimmed
    /\ last' = rec
    /\ activated' = Activated(rec, s)
    /\ UNCHANGED variant

Commit(op, delta, tkind, tidx, s) ==
    CommitAs(Record(op, delta, tkind, tidx, s), s)

Init ==
    /\ variant \in Variants
    /\ status = "Stop"
    /\ timers = <<>>
    /\ lastSelected = 0
    /\ viewModel = UndefinedViewModel
    /\ visualSettings = UndefinedSettings
    /\ dimmed = {}
    /\ last = [op |-> "new", delta |-> 0, tkind |-> "none", tidx |-> -1,
               pre |-> "Stop", cur |-> 0, out |-> <<>>, sched |-> <<>>,
               cleared |-> <<>>, threw |-> FALSE, options |-> NotReadyOptions]
    /\ activated = -1
    /\ run = NoRun

\* the host calls update(options)
Update(options) ==
    LET s == update(Self, options)
    IN  /\ CommitAs([Record("update", 0, "none", -1, s)
                         EXCEPT !.options = options], s)
        /\ run' = IF s.sched # <<>> THEN [st |-> "on", log |-> <<>>]
                  ELSE NoRun

HostUpdate == \E options \in Options : Update(options)

\* the host calls update(options) on a visual whose loop setting is on
\* (and whose caption is shown: the caption plays no part in the timers)
LoopOptions == {o \in Options : o.ready => (o.loop /\ o.show)}

HostUpdateLooping == \E options \in LoopOptions : Update(options)

\* click on #play
ClickPlay ==
    LET s == playAnimation(Self)
    IN  /\ Commit("play", 0, "none", -1, s)
        /\ run' = IF status = "Stop" /\ s.status = "Play"
                  THEN [st |-> "on", log |-> <<>>]
                  ELSE NoRun

\* click on #stop
ClickStop ==
    /\ Commit("stop", 0, "none", -1, stopAnimation(Self))
    /\ run' = NoRun

\* click on #pause
ClickPause ==
    /\ Commit("pause", 0, "none", -1, pauseAnimation(Self))
    /\ run' = NoRun

\* click on #previous (step(-1)) or #next (step(1))
ClickStep ==
    \E delta \in {-1, 1} :
        /\ Commit("step", delta, "none", -1, step(Self, delta))
        /\ run' = NoRun

Remove(seq, k) == [j \in 1..(Len(seq) - 1) |-> IF j < k THEN seq[j] ELSE seq[j + 1]]

\* timers run in the order of their expiry, and among equals in the order
\* of their creation: handle k is the next to run when it has expired and
\* no handle pushed before it has
IsNext(k) ==
    /\ k \in DOMAIN timers
    /\ timers[k].left = 0
    /\ \A j \in 1..(k - 1) : timers[j].left > 0

\* the callback of handle k runs
TimerFires ==
    \E k \in DOMAIN timers :
        /\ IsNext(k)
        /\ LET t == timers[k]
               s0 == [Self EXCEPT !.timers = Remove(timers, k)]
               s == IF t.kind = "advance" THEN advanceCallback(s0, t.i)
                    ELSE terminalCallback(s0)
           IN  /\ Commit("timer", 0, t.kind, t.i, s)
               /\ run' = IF t.kind = "advance"
                         THEN (IF run.st = "on"
                               THEN [run EXCEPT !.log = @ \o s.out]
                               ELSE run)
                         ELSE IF s.sched # <<>>
                              THEN [st |-> "on", log |-> <<>>]
                              ELSE IF run.st = "on"
                                   THEN [run EXCEPT !.st = "done"]
                                   ELSE NoRun

\* one unit of time passes; no callback is overdue
Tick ==
    /\ timers # <<>>
    /\ \A k \in DOMAIN timers : timers[k].left > 0
    /\ timers' = [k \in DOMAIN timers |-> [timers[k] EXCEPT !.left = @ - 1]]
    /\ last' = [op |-> "tick", delta |-> 0, tkind |-> "none", tidx |-> -1,
                pre |-> status, cur |-> lastSelected, out |-> <<>>,
                sched |-> <<>>, cleared |-> <<>>, threw |-> FALSE,
                options |-> NotReadyOptions]
    /\ UNCHANGED <<variant, status, lastSelected, viewModel, visualSettings,
                   dimmed, activated, run>>

Next ==
    \/ HostUpdate
    \/ ClickPlay
    \/ ClickStop
    \/ ClickPause
    \/ ClickStep
    \/ TimerFires
    \/ Tick

Spec == Init /\ [][Next]_vars

\* the extended visual with its loop setting left on
LoopInit ==
    /\ variant = "extended"
    /\ status = "Stop"
    /\ timers = <<>>
    /\ lastSelected = 0
    /\ viewModel = UndefinedViewModel
    /\ visualSettings = UndefinedSettings
    /\ dimmed = {}
    /\ last = [op |-> "new", delta |-> 0, tkind |-> "none", tidx |-> -1,
               pre |-> "Stop", cur |-> 0, out |-> <<>>, sched |-> <<>>,
               cleared |-> <<>>, threw |-> FALSE, options |-> NotReadyOptions]
    /\ activated = -1
    /\ run = NoRun

LoopNext ==
    \/ HostUpdateLooping
    \/ ClickPlay
    \/ ClickStop
    \/ ClickPause
    \/ ClickStep
    \/ TimerFires
    \/ Tick

\* the event loop runs every expired callback and time passes
FairSpec ==
    /\ LoopInit
    /\ [][LoopNext]_vars
    /\ WF_vars(TimerFires) /\ WF_vars(Tick)

\* the host calls update(options) on a visual whose loop setting is off
\* (and whose caption is shown)
NoLoopOptions == {o \in Options : o.ready => (~o.loop /\ o.show)}

HostUpdateNoLoop == \E options \in NoLoopOptions : Update(options)

\* the extended visual with its loop setting left off
NoLoopNext ==
    \/ HostUpdateNoLoop
    \/ ClickPlay
    \/ ClickStop
    \/ ClickPause
    \/ ClickStep
    \/ TimerFires
    \/ Tick

NoLoopFairSpec ==
    /\ LoopInit
    /\ [][NoLoopNext]_vars
    /\ WF_vars(TimerFires) /\ WF_vars(Tick)

TypeOK ==
    /\ variant \in Variants
    /\ status \in {"Play", "Pause", "Stop"}
    /\ lastSelected \in 0..MaxLen
    /\ dimmed \subseteq {"play", "pause", "stop", "previous", "next"}

----------------------------------------------------------------------------
\* Vocabulary of the properties

N == Length(viewModel)
intervalMs == viewModel.settings.timeInterval

OfKind(seq, kind) == SelectSeq(seq, LAMBDA t : t.kind = kind)
Events(seq, e) == SelectSeq(seq, LAMBDA x : x.e = e)

\* the (index, delay) pairs of the advance callbacks in a list of handles
AdvancePairs(seq) ==
    {<<seq[k].i, seq[k].delay>> : k \in {j \in DOMAIN seq : seq[j].kind = "advance"}}

\* seq holds one advance callback per index of lo..hi, with delay
\* (i - base) * intervalMs, and no other advance callback
AdvancesExactly(seq, lo, hi, base) ==
    /\ AdvancePairs(seq) = {<<i, (i - base) * intervalMs>> : i \in lo..hi}
    /\ Len(OfKind(seq, "advance")) = Cardinality(lo..hi)

IsPrefix(a, b) == Len(a) <= Len(b) /\ a = SubSeq(b, 1, Len(a))

\* what the advance callbacks of indices 0..n-1 emit, in order
RECURSIVE PlaybackLog(_)
PlaybackLog(n) ==
    IF n = 0 THEN <<>>
    ELSE PlaybackLog(n - 1)
         \o <<SelectEv(Item(viewModel, n - 1).selectionId),
              CaptionEv(Item(viewModel, n - 1).category)>>
         \o (IF visualSettings.show
             THEN <<LabelEv(Item(viewModel, n - 1).category)>> ELSE <<>>)

----------------------------------------------------------------------------
\* C1: play() called in Stopped on a sequence of length N schedules exactly
\* N advance callbacks, one per index i of 0..N-1 with delay i * intervalMs,
\* plus exactly one terminal callback in the extended variant, and sets the
\* state to Playing.
C1_PlayFromStoppedSchedulesAll ==
    (last.op = "play" /\ last.pre = "Stop" /\ viewModel.defined) =>
        /\ AdvancesExactly(last.sched, 0, N - 1, 0)
        /\ Len(OfKind(last.sched, "terminal"))
              = (IF variant = "extended" THEN 1 ELSE 0)
        /\ status = "Play"

\* C1, where it holds: the same, for a view model whose settings object has
\* its fields (every one but the emptyViewModel of the basic variant).
C1_PlayFromStoppedWithSettings ==
    (last.op = "play" /\ last.pre = "Stop" /\ viewModel.defined
        /\ viewModel.settings.kind = "full") =>
        /\ AdvancesExactly(last.sched, 0, N - 1, 0)
        /\ Len(OfKind(last.sched, "terminal"))
              = (IF variant = "extended" THEN 1 ELSE 0)
        /\ status = "Play"
        /\ ~last.threw

\* C2: what pause() or stop() cancelled never fires: after either has run
\* past its guard no handle is pending, and every timer callback that runs
\* starts in state Playing, so none changes the cursor or the state or emits
\* an event while the state is Paused or Stopped.
C2_CancelledNeverFires ==
    /\ (last.op = "pause" /\ ~pauseReturns(last.pre)) => timers = <<>>
    /\ (last.op = "stop" /\ ~stopReturns(last.pre)) => timers = <<>>
    /\ last.op = "timer" => last.pre = "Play"

C2_Witness ==
    /\ last.op = "pause"
    /\ last.pre = "Play"
    /\ last.cleared # <<>>
    /\ status = "Pause"

\* C3: no timer callback is pending while the state is Stopped or Paused;
\* pending callbacks exist only while it is Playing.
C3_PendingOnlyWhilePlaying ==
    timers # <<>> => status = "Play"

C3_Witness ==
    /\ last.op = "stop"
    /\ last.cleared # <<>>
    /\ status = "Stop"
    /\ timers = <<>>

\* C4: stop() called in Playing or Paused leaves no pending timer, cursor 0
\* and state Stopped, and the play() that follows schedules an advance for
\* every index 0..N-1, whatever the cursor was before the stop.
C4_StopResets ==
    /\ (last.op = "stop" /\ last.pre \in {"Play", "Pause"}) =>
           timers = <<>> /\ lastSelected = 0 /\ status = "Stop"
    /\ (last.op = "play" /\ last.pre = "Stop" /\ ~last.threw) =>
           AdvancesExactly(last.sched, 0, N - 1, 0)

\* C4, where it holds: the same, when the settings object has its fields.
C4_StopResetsWithSettings ==
    (last.op = "stop" /\ last.pre \in {"Play", "Pause"}
        /\ visualSettings.kind = "full") =>
           timers = <<>> /\ lastSelected = 0 /\ status = "Stop"

\* C5: play() called in Paused with cursor c schedules an advance callback
\* for exactly the indices c+1..N-1, each with delay (i - c) * intervalMs,
\* c being the cursor at the time of the call.
C5_ResumeSchedulesRest ==
    (last.op = "play" /\ last.pre = "Pause") =>
        AdvancesExactly(last.sched, last.cur + 1, N - 1, last.cur)

C5_Witness ==
    /\ last.op = "play"
    /\ last.pre = "Pause"
    /\ last.cur >= 1
    /\ OfKind(last.sched, "advance") # <<>>
    /\ status = "Play"

\* C6: the advance callbacks of one play() fire in increasing index order:
\* when the callback of index i runs, every advance callback still pending
\* has a larger index, and it does not move the cursor backwards.
C6_AdvancesFireInIndexOrder ==
    (last.op = "timer" /\ last.tkind = "advance") =>
        /\ \A k \in DOMAIN timers :
              timers[k].kind = "advance" => timers[k].i > last.tidx
        /\ ~last.threw => lastSelected = last.tidx
        /\ lastSelected >= last.cur

C6_Witness ==
    /\ last.op = "timer"
    /\ last.tkind = "advance"
    /\ last.tidx >= 1
    /\ lastSelected = last.tidx
    /\ OfKind(timers, "advance") # <<>>

\* C7: extended variant, loop = false, N >= 1: a play from Stopped that no
\* user operation and no update() disturbs emits select and caption for the
\* indices 0, 1, ..., N-1 in that order, each once, and nothing else, before
\* its terminal callback fires.
C7_UndisturbedPlaySelectsAllInOrder ==
    (variant = "extended" /\ viewModel.defined /\ ~visualSettings.loop
        /\ N >= 1) =>
        /\ run.st = "on" => IsPrefix(run.log, PlaybackLog(N))
        /\ run.st = "done" => run.log = PlaybackLog(N)

C7_Witness ==
    /\ variant = "extended"
    /\ run.st = "done"
    /\ ~visualSettings.loop
    /\ N >= 2
    /\ last.op = "timer"
    /\ last.tkind = "terminal"

\* C8: step(delta), delta = -1 or +1, called in Paused with
\* 0 <= cursor + delta <= N-1 sets the cursor to cursor + delta, emits
\* select and caption for the item of the new cursor, schedules no timer and
\* leaves the state Paused.
C8_StepMovesAndSelects ==
    (last.op = "step" /\ last.pre = "Pause"
        /\ 0 <= last.cur + last.delta /\ last.cur + last.delta <= N - 1) =>
        /\ lastSelected = last.cur + last.delta
        /\ Events(last.out, "select")
              = <<SelectEv(Item(viewModel, lastSelected).selectionId)>>
        /\ Events(last.out, "caption")
              = <<CaptionEv(Item(viewModel, lastSelected).category)>>
        /\ Events(last.out, "clear") = <<>>
        /\ last.sched = <<>>
        /\ timers = <<>>
        /\ status = "Pause"

C8_Witness ==
    /\ last.op = "step"
    /\ last.pre = "Pause"
    /\ last.delta = -1
    /\ lastSelected = last.cur - 1
    /\ Events(last.out, "select") # <<>>
    /\ status = "Pause"

\* C9: step(+1) in Paused with cursor = N-1 and step(-1) in Paused with
\* cursor = 0 are no-ops: cursor and state unchanged, no event emitted.
C9_StepAtTheLimitsIsNoOp ==
    (last.op = "step" /\ last.pre = "Pause"
        /\ \/ last.delta = 1 /\ last.cur = N - 1
           \/ last.delta = -1 /\ last.cur = 0) =>
        /\ lastSelected = last.cur
        /\ status = "Pause"
        /\ last.out = <<>>
        /\ last.sched = <<>>
        /\ ~last.threw

C9_Witness ==
    /\ last.op = "step"
    /\ last.pre = "Pause"
    /\ last.delta = 1
    /\ N >= 1
    /\ last.cur = N - 1
    /\ lastSelected = N - 1

\* C10: each guarded call is a no-op: play() in Playing, pause() in Paused
\* or Stopped, stop() in Stopped and step(+1/-1) in Playing or Stopped leave
\* state, cursor, sequence and pending timers unchanged and emit nothing.
GuardedCall ==
    \/ last'.op = "play" /\ status = "Play"
    \/ last'.op = "pause" /\ status \in {"Pause", "Stop"}
    \/ last'.op = "stop" /\ status = "Stop"
    \/ last'.op = "step" /\ status \in {"Play", "Stop"}

C10_GuardedCallsAreNoOps ==
    [][GuardedCall =>
          /\ UNCHANGED <<status, lastSelected, viewModel, visualSettings, timers>>
          /\ last'.out = <<>>
          /\ last'.sched = <<>>
          /\ last'.cleared = <<>>
          /\ ~last'.threw]_vars

C10_Witness ==
    /\ last.op = "play"
    /\ last.pre = "Play"
    /\ status = "Play"
    /\ timers # <<>>
    /\ last.out = <<>>

\* C11: extended variant: update() with ready data, in any state, leaves no
\* timer scheduled before it pending, installs the new sequence with cursor 0,
\* and ends in Playing with the advances of the new sequence scheduled from
\* index 0 when the new autoStart is true, in Stopped otherwise.
C11_UpdateStopsInstallsAndAutoStarts ==
    (variant = "extended" /\ last.op = "update" /\ last.options.ready) =>
        /\ viewModel.dataPoints = CategoryDataPoints(last.options.values)
        /\ intervalMs = last.options.timeInterval
        /\ lastSelected = 0
        /\ timers = last.sched
        /\ IF last.options.autoStart
           THEN /\ status = "Play"
                /\ AdvancesExactly(last.sched, 0, N - 1, 0)
                /\ Len(OfKind(last.sched, "terminal")) = 1
           ELSE /\ status = "Stop"
                /\ timers = <<>>

C11_Witness ==
    /\ variant = "extended"
    /\ last.op = "update"
    /\ last.options.ready
    /\ last.options.autoStart
    /\ last.pre = "Play"
    /\ last.cur >= 1
    /\ last.cleared # <<>>
    /\ N >= 2
    /\ status = "Play"

\* C12: extended variant: the terminal callback with loop = false performs
\* stop(): state Stopped, cursor 0, no timer pending, a caption-clear and a
\* selection-clear emitted; with loop = true it resets state and cursor and
\* runs play() from index 0.
C12_TerminalStopsOrRestarts ==
    (variant = "extended" /\ last.op = "timer" /\ last.tkind = "terminal") =>
        IF visualSettings.loop
        THEN /\ status = "Play"
             /\ lastSelected = 0
             /\ AdvancesExactly(last.sched, 0, N - 1, 0)
             /\ Len(OfKind(last.sched, "terminal")) = 1
             /\ timers = last.sched
             /\ Events(last.out, "clear") = <<>>
        ELSE /\ status = "Stop"
             /\ lastSelected = 0
             /\ timers = <<>>
             /\ last.sched = <<>>
             /\ Events(last.out, "caption") = <<CaptionEv("")>>
             /\ Events(last.out, "clear") = <<ClearEv>>

C12_Witness ==
    /\ variant = "extended"
    /\ last.op = "timer"
    /\ last.tkind = "terminal"
    /\ visualSettings.loop
    /\ last.cur >= 1
    /\ N >= 2
    /\ status = "Play"
    /\ timers # <<>>

\* C13: extended variant, loop = true, N >= 1: as long as no stop(), pause()
\* or update() occurs after play(), each firing of the terminal callback
\* leaves the controller Playing with cursor 0 and exactly N advance
\* callbacks and one terminal callback pending, so that every index 0..N-1
\* is selected again and again.
Looping(i) ==
    /\ variant = "extended"
    /\ status = "Play"
    /\ visualSettings.loop
    /\ N > i
    /\ last.op \notin {"stop", "pause", "update"}

Selected(i) ==
    /\ last.op = "timer"
    /\ last.tkind = "advance"
    /\ last.tidx = i
    /\ Events(last.out, "select") # <<>>

RestartedByLoop ==
    /\ variant = "extended"
    /\ last.op = "timer"
    /\ last.tkind = "terminal"
    /\ visualSettings.loop
    /\ N >= 1

C13_LoopReplaysForever ==
    /\ [](RestartedByLoop =>
            /\ status = "Play"
            /\ lastSelected = 0
            /\ Len(OfKind(timers, "advance")) = N
            /\ Len(OfKind(timers, "terminal")) = 1
            /\ Len(timers) = N + 1)
    /\ \A i \in 0..(MaxLen - 1) : <>[]Looping(i) => []<>Selected(i)

C13_Witness ==
    /\ RestartedByLoop
    /\ run.st = "on"
    /\ N >= 2
    /\ Len(timers) = N + 1
    /\ activated = -1

\* C14: extended variant: play() on an empty sequence from Stopped, for every
\* configuration, schedules no advance callback and one terminal callback
\* with delay 0, and the firing of that terminal callback invokes stop():
\* it leaves the state Stopped and no timer pending.
EmptyTerminalFired ==
    /\ variant = "extended"
    /\ last.op = "timer"
    /\ last.tkind = "terminal"
    /\ N = 0

C14_EmptyPlayStops ==
    /\ (variant = "extended" /\ last.op = "play" /\ last.pre = "Stop"
            /\ viewModel.defined /\ N = 0) =>
           /\ OfKind(last.sched, "advance") = <<>>
           /\ Len(OfKind(last.sched, "terminal")) = 1
           /\ \A k \in DOMAIN last.sched : last.sched[k].delay = 0
    /\ EmptyTerminalFired =>
           /\ status = "Stop"
           /\ timers = <<>>
           /\ Events(last.out, "clear") = <<ClearEv>>

\* C14, where it holds: the same, when transitionSettings.loop is false.
C14_EmptyPlayStopsWithoutLoop ==
    /\ (variant = "extended" /\ last.op = "play" /\ last.pre = "Stop"
            /\ viewModel.defined /\ N = 0) =>
           /\ OfKind(last.sched, "advance") = <<>>
           /\ Len(OfKind(last.sched, "terminal")) = 1
           /\ \A k \in DOMAIN last.sched : last.sched[k].delay = 0
    /\ (EmptyTerminalFired /\ ~visualSettings.loop) =>
           /\ status = "Stop"
           /\ timers = <<>>
           /\ Events(last.out, "clear") = <<ClearEv>>

\* C15: in both variants, in every state reachable from construction, each
\* of play(), pause(), stop() and step() completes without raising an error.
C15_HandlersAreTotal ==
    last.op \in {"play", "pause", "stop", "step"} => ~last.threw

\* C16: in both variants, an advance callback for index i fires only with
\* 0 <= i <= length - 1 for the sequence installed at that time, and so
\* reads an existing element and completes.
C16_AdvanceIndexInRange ==
    (last.op = "timer" /\ last.tkind = "advance") =>
        /\ 0 <= last.tidx
        /\ last.tidx <= N - 1
        /\ ~last.threw

\* C16, where it holds: the extended variant, whose update() cancels the
\* pending callbacks before it installs the new sequence.
C16_AdvanceIndexInRangeExtended ==
    (variant = "extended" /\ last.op = "timer" /\ last.tkind = "advance") =>
        /\ 0 <= last.tidx
        /\ last.tidx <= N - 1
        /\ ~last.threw

\* C17: in every reachable state of either variant in which the state is
\* Playing or Paused, 0 <= cursor <= length - 1 for the installed sequence.
C17_CursorInRangeWhileActive ==
    status \in {"Play", "Pause"} =>
        /\ 0 <= lastSelected
        /\ lastSelected <= N - 1

\* C17, what does hold: the cursor is never negative, and it is within the
\* sequence right after a callback or a step has moved it.
C17_CursorInRangeWhenMoved ==
    /\ 0 <= lastSelected
    /\ (last.op \in {"timer", "step"} /\ lastSelected # last.cur
            /\ status \in {"Play", "Pause"}) =>
           lastSelected <= N - 1

\* C18: in every reachable state of either variant, Stopped implies
\* cursor = 0.
C18_StoppedCursorIsZero ==
    status = "Stop" => lastSelected = 0

C18_Witness ==
    /\ status = "Stop"
    /\ last.op = "stop"
    /\ last.pre \in {"Play", "Pause"}
    /\ last.cur >= 1
    /\ lastSelected = 0

C20_StopEmitsClearAndCaption ==
    (last.op = "stop" /\ last.pre \in {"Play", "Pause"}) =>
        /\ Events(last.out, "clear") = <<ClearEv>>
        /\ Events(last.out, "caption") = <<CaptionEv("")>>
        /\ Events(last.out, "label") =
               (IF visualSettings.show THEN <<LabelEv("")>> ELSE <<>>)
        /\ Events(last.out, "select") = <<>>
        /\ last.out[Len(last.out)] = ClearEv
        /\ status = "Stop"

\* C20, where it holds: the same, when the settings object has its fields.
C20_StopEmitsClearAndCaptionWithSettings ==
    (last.op = "stop" /\ last.pre \in {"Play", "Pause"}
        /\ visualSettings.kind = "full") =>
        /\ Events(last.out, "clear") = <<ClearEv>>
        /\ Events(last.out, "caption") = <<CaptionEv("")>>
        /\ Events(last.out, "label") =
               (IF visualSettings.show THEN <<LabelEv("")>> ELSE <<>>)
        /\ Events(last.out, "select") = <<>>
        /\ last.out[Len(last.out)] = ClearEv
        /\ status = "Stop"

\* C21: in both variants, an advance callback for index i that fires sets
\* cursor = i and emits select(sequence[i].token) and caption(sequence[i].label)
\* for that index i, and leaves the state unchanged.
AdvanceFired == last.op = "timer" /\ last.tkind = "advance"

\* what the callback emits for index i of the installed sequence
AdvanceEmits(vm, show, i) ==
    <<SelectEv(Item(vm, i).selectionId), CaptionEv(Item(vm, i).category)>>
    \o (IF show THEN <<LabelEv(Item(vm, i).category)>> ELSE <<>>)

C21_AdvanceSelectsItsIndex ==
    AdvanceFired =>
        /\ last.tidx < N
        /\ lastSelected = last.tidx
        /\ last.out = AdvanceEmits(viewModel, visualSettings.show, last.tidx)
        /\ status = last.pre
        /\ ~last.threw

\* C21, where it holds: the same, with what the callback leaves unchanged,
\* when the index is within the installed sequence.
C21_AdvanceInRangeSelectsItsIndex ==
    [][(last'.op = "timer" /\ last'.tkind = "advance" /\ last'.tidx < N) =>
          /\ lastSelected' = last'.tidx
          /\ last'.out = AdvanceEmits(viewModel, visualSettings.show, last'.tidx)
          /\ ~last'.threw
          /\ status' = status
          /\ viewModel' = viewModel
          /\ visualSettings' = visualSettings
          /\ \E k \in DOMAIN timers :
                /\ timers[k].kind = "advance"
                /\ timers[k].i = last'.tidx
                /\ timers' = Remove(timers, k)]_vars

\* C22: in both variants, an advance callback, step() or stop() writes a
\* caption to the label only if captionSettings.show holds when it runs; when
\* show is off they write none, and their select and selection-clear events
\* and the cursor and state they leave are those they would leave with show
\* on.
NotLabel(seq) == SelectSeq(seq, LAMBDA x : x.e # "label")

\* the handler of the step just taken, run with show set to b
WithShow(b) ==
    LET a == [Self EXCEPT !.visualSettings.show = b]
    IN  CASE last'.op = "stop" -> stopAnimation(a)
          [] last'.op = "step" -> step(a, last'.delta)
          [] last'.op = "timer" /\ last'.tkind = "advance"
                -> advanceCallback(a, last'.tidx)
          [] OTHER -> terminalCallback(a)

C22_CaptionOnlyIfShown ==
    [][(last'.op \in {"stop", "step", "timer"}) =>
          /\ Events(last'.out, "label") # <<>> => visualSettings.show
          /\ (visualSettings.kind = "full" /\ ~visualSettings.show) =>
                /\ Events(last'.out, "label") = <<>>
                /\ last'.out = NotLabel(WithShow(TRUE).out)
                /\ status' = WithShow(TRUE).status
                /\ lastSelected' = WithShow(TRUE).lastSelected
                /\ last'.threw = WithShow(TRUE).threw]_vars

C22_Witness ==
    /\ last.op = "step"
    /\ visualSettings.kind = "full"
    /\ ~visualSettings.show
    /\ Events(last.out, "select") # <<>>
    /\ Events(last.out, "label") = <<>>
    /\ lastSelected # last.cur

\* C23: in both variants, a change of timeInterval (and of loop in the
\* extended variant) made by update() does not affect callbacks already
\* pending.  The basic update() leaves every pending handle as it is, delay
\* and remaining time included; the extended update() leaves no handle of an
\* earlier play() pending, so that every pending handle was scheduled under
\* the settings in force, which are also those the terminal callback reads;
\* and the play() that follows computes its delays from the new timeInterval.
ScheduledWith(seq, interval) ==
    \E base \in 0..MaxLen :
        \A k \in DOMAIN seq : seq[k].delay = (seq[k].i - base) * interval

C23_UpdateLeavesPendingCallbacks ==
    [][/\ (last'.op = "update" /\ variant = "basic") => timers' = timers
       /\ (last'.op = "update" /\ variant = "extended") =>
              \/ timers' = last'.sched
              \/ ~last'.options.ready /\ timers' = timers
       /\ variant = "extended" => ScheduledWith(timers', intervalMs')
       /\ (last'.op = "play" /\ last'.sched # <<>>) =>
              /\ ScheduledWith(last'.sched, intervalMs')
              /\ \A k \in DOMAIN last'.sched :
                    last'.sched[k].left = last'.sched[k].delay]_vars

C23_Witness ==
    /\ variant = "basic"
    /\ last.op = "update"
    /\ last.options.ready
    /\ status = "Play"
    /\ timers # <<>>
    /\ ~ScheduledWith(timers, intervalMs)

\* C24: in both variants, play() called in Paused with cursor = N - 1
\* schedules no advance callback and sets the state to Playing; in the basic
\* variant no timer at all is then pending (in the extended variant only the
\* terminal callback, with delay intervalMs).
C24_ResumeAtEndSchedulesNoAdvance ==
    (last.op = "play" /\ last.pre = "Pause" /\ last.cur = N - 1) =>
        /\ OfKind(last.sched, "advance") = <<>>
        /\ status = "Play"
        /\ ~last.threw
        /\ timers = last.sched
        /\ variant = "basic" => timers = <<>>
        /\ variant = "extended" =>
              timers = <<Timer("terminal", N, intervalMs)>>

C24_Witness ==
    /\ variant = "basic"
    /\ last.op = "play"
    /\ last.pre = "Pause"
    /\ last.cur = N - 1
    /\ N >= 2
    /\ status = "Play"
    /\ timers = <<>>

\* C25: in every reachable state of either variant, callbacks of two
\* different play() invocations are never pending together: at most one
\* advance callback is pending per index, at most one terminal callback in
\* the extended variant (none in the basic one), and the pending handles are
\* a suffix of what one play() pushed: increasing indices, the terminal
\* callback last.
C25_OnePlaybackPending ==
    /\ \A j, k \in DOMAIN timers :
          (j # k /\ timers[j].kind = "advance" /\ timers[k].kind = "advance")
              => timers[j].i # timers[k].i
    /\ Len(OfKind(timers, "terminal"))
          <= (IF variant = "extended" THEN 1 ELSE 0)
    /\ \A j, k \in DOMAIN timers :
          j < k => /\ timers[j].kind = "advance"
                   /\ timers[j].i < timers[k].i
                   /\ timers[j].left <= timers[k].left

C25_Witness ==
    /\ variant = "extended"
    /\ last.op = "play"
    /\ last.pre = "Pause"
    /\ last.cleared = <<>>
    /\ Len(OfKind(timers, "advance")) >= 1
    /\ Len(OfKind(timers, "terminal")) = 1

\* C26: in the basic variant, update() replaces the sequence and the settings
\* and leaves the state, the cursor and the pending timers unchanged; so an
\* advance callback scheduled before an update() made while Playing still
\* fires afterwards, and reads the element at its index from the new
\* sequence.
C26_BasicUpdateKeepsPlayback ==
    [][variant = "basic" =>
          /\ last'.op = "update" =>
                /\ viewModel' = visualTransform(last'.options)
                /\ visualSettings' = viewModel'.settings
                /\ status' = status
                /\ lastSelected' = lastSelected
                /\ timers' = timers
          /\ (last'.op = "timer" /\ last'.tidx < Length(viewModel')) =>
                /\ viewModel' = viewModel
                /\ Events(last'.out, "select")
                      = <<SelectEv(Item(viewModel', last'.tidx).selectionId)>>
          /\ (last'.op = "timer" /\ last'.tidx >= Length(viewModel')) =>
                last'.threw]_vars

\* the last handle of a play() has fired, and the sequence is longer than
\* the one that play() saw: an update() replaced it in between
C26_Witness ==
    /\ variant = "basic"
    /\ AdvanceFired
    /\ status = "Play"
    /\ timers = <<>>
    /\ last.tidx < N - 1
    /\ Events(last.out, "select")
          = <<SelectEv(Item(viewModel, last.tidx).selectionId)>>

\* C27: extended variant, loop = false: from any state with state = Playing,
\* if no user operation and no update() occurs, the controller eventually is
\* Stopped with no pending timer, for every length N >= 0 and every cursor at
\* the time of play().  While Playing a terminal callback is pending, so
\* that time passes or a callback runs; and a behaviour whose steps are from
\* some point on only those ends Stopped with nothing pending.
Quiet == last.op \in {"timer", "tick"}

C27_PlaybackTerminates ==
    /\ [](status = "Play" => Len(OfKind(timers, "terminal")) = 1)
    /\ <>[]Quiet => <>[](status = "Stop" /\ timers = <<>>)

C27_Witness ==
    /\ ~visualSettings.loop
    /\ last.op = "timer"
    /\ last.tkind = "terminal"
    /\ last.pre = "Play"
    /\ last.cur = N - 1
    /\ N >= 2
    /\ run.st = "done"
    /\ status = "Stop"
    /\ timers = <<>>

\* C28: in the extended variant, the terminal callback of a play() has delay
\* (N - cursor) * intervalMs, strictly greater than the delay of every
\* advance callback of the same play(), so that it runs only after all of
\* them have run: no advance callback is pending when it runs.
C28_TerminalRunsLast ==
    [][variant = "extended" =>
          /\ last'.sched # <<>> =>
                LET terminal == OfKind(last'.sched, "terminal")
                IN  /\ Len(terminal) = 1
                    /\ terminal[1].delay
                          = (Length(viewModel') - lastSelected') * intervalMs'
                    /\ \A k \in DOMAIN last'.sched :
                          last'.sched[k].kind = "advance" =>
                              last'.sched[k].delay < terminal[1].delay
          /\ (last'.op = "timer" /\ last'.tkind = "terminal") =>
                /\ Len(timers) = 1
                /\ OfKind(timers, "advance") = <<>>]_vars

C28_Witness ==
    /\ variant = "extended"
    /\ last.op = "timer"
    /\ last.tkind = "terminal"
    /\ intervalMs = 2
    /\ N >= 2
    /\ last.cur = N - 1
    /\ run.st # "off"

\* C29: in the basic variant no timer callback changes the state: after the
\* last advance callback of a play() has fired the state stays Playing, with
\* no pending timer, until pause() or stop() is called, and the state
\* becomes Stopped only through a stop() call.
C29_BasicCallbacksKeepState ==
    [][variant = "basic" =>
          /\ last'.op = "timer" => status' = status
          /\ (status = "Play" /\ status' # "Play") =>
                last'.op \in {"pause", "stop"}
          /\ (status # "Stop" /\ status' = "Stop") => last'.op = "stop"
          /\ (status = "Play" /\ timers = <<>>) => timers' = <<>>]_vars

C29_Witness ==
    /\ variant = "basic"
    /\ last.op = "timer"
    /\ last.tidx = N - 1
    /\ N >= 2
    /\ run.st = "on"
    /\ run.log = PlaybackLog(N)
    /\ status = "Play"
    /\ timers = <<>>

\* C30: in the extended variant, update() called with data that is not ready
\* is a no-op: state, cursor, sequence, settings and pending timers are
\* unchanged and no event is emitted, so that an ongoing playback goes on.
C30_NotReadyUpdateIsNoOp ==
    [][(variant = "extended" /\ last'.op = "update"
            /\ ~last'.options.ready) =>
          /\ status' = status
          /\ lastSelected' = lastSelected
          /\ viewModel' = viewModel
          /\ visualSettings' = visualSettings
          /\ timers' = timers
          /\ dimmed' = dimmed
          /\ last'.out = <<>>
          /\ last'.sched = <<>>
          /\ last'.cleared = <<>>
          /\ ~last'.threw]_vars

C30_Witness ==
    /\ variant = "extended"
    /\ last.op = "update"
    /\ ~last.options.ready
    /\ status = "Play"
    /\ lastSelected >= 1
    /\ Len(timers) >= 2

\* C31: in every reachable state of either variant, from construction on,
\* the controls shown dimmed (opacity 0.3) are exactly those whose operation
\* its state guard rejects in the current state: play, next and previous
\* while Playing; pause while Paused; pause, stop, next and previous while
\* Stopped.
Rejected(st) ==
    (IF playReturns(st) THEN {"play"} ELSE {})
    \cup (IF pauseReturns(st) THEN {"pause"} ELSE {})
    \cup (IF stopReturns(st) THEN {"stop"} ELSE {})
    \cup (IF stepReturns(st) THEN {"next", "previous"} ELSE {})

C31_DimmedAreTheRejected ==
    /\ Rejected("Play") = {"play", "next", "previous"}
    /\ Rejected("Pause") = {"pause"}
    /\ Rejected("Stop") = {"pause", "stop", "next", "previous"}
    /\ dimmed = Rejected(status)

\* C31, where it holds: right after a handler that has taken the controller
\* to another state.
C31_DimmedAfterStateChange ==
    (last.op \in {"play", "pause", "stop", "timer", "update"}
        /\ status # last.pre) =>
        dimmed = Rejected(status)

====
